---- MODULE Spec2Model ----
(***************************************************************************)
(* Model of the Django-Learning project: the view functions of             *)
(* djangolearning/views.py (home, about, contact) and the route table of   *)
(* subapp/urls.py, driven by the request cycle of the web framework:       *)
(* receive a request, resolve its path against the route tables, call the  *)
(* view, turn the view's return value or exception into the response.      *)
(*                                                                         *)
(* Paths and routes are sequences of one-character strings, so that the    *)
(* framework's matching (equality for an endpoint, prefix stripping for an *)
(* include) is computed and not assumed.  A request's path is its          *)
(* path_info without the leading slash, as the resolver sees it.           *)
(***************************************************************************)
EXTENDS Naturals, Sequences, FiniteSets

VARIABLES
    urlpatterns,  \* subapp/urls.py: the module-level list of routes
    templates,    \* the template store: template name -> content
    pc,           \* position in the request cycle
    request,      \* the request being served (the last one, when idle)
    link,         \* the last URL produced by reverse routing
    match,        \* what the resolver found for the request
    invoked,      \* the view called for the request, "none" if none
    calls,        \* the render calls made while serving the request
    outcome,      \* what the view returned or raised
    response,     \* the response the framework sent
    seen,         \* per view of views.py, every request it served with its outcome
    served        \* number of requests received

vars == <<urlpatterns, templates, pc, request, link, match, invoked, calls,
          outcome, response, seen, served>>

\* ------------------------------------------------------------------ bounds

MaxRequests == 3

\* --------------------------------------------------------------- constants

s_about   == <<"a", "b", "o", "u", "t">>
s_contact == <<"c", "o", "n", "t", "a", "c", "t">>
s_login   == <<"l", "o", "g", "i", "n">>
s_subapp  == <<"s", "u", "b", "a", "p", "p", "/">>

INDEX_TEMPLATE == "website/index.html"
ABOUT_TEXT     == "Hello from django views, and about page"
CONTACT_TEXT   == "Hello from django views, and contact page"
HOME_TEXT      == "Hello from django views, and hompepage"

\* Templates that may or may not be installed, and what they may contain.
TemplateNames    == {INDEX_TEMPLATE}
TemplateContents == {"<h1>Home</h1>", ABOUT_TEXT}

Methods == {"GET", "POST"}
Headers == {"", "Accept: text/html"}

\* Request paths tried against the root table.
Paths ==
    { <<>>, s_about, s_contact, s_login,
      s_about \o <<"/">>,
      s_subapp,
      s_subapp \o s_login,
      s_subapp \o s_login \o <<"/">>,
      s_subapp \o <<"l", "o", "g">> }

\* ------------------------------------------------ framework: responses

\* django.http.HttpResponse(content): status defaults to 200.
HttpResponse(content) ==
    [kind |-> "response", status |-> 200, body |-> content, exc |-> "none"]

\* An exception leaving a view or the resolver.
Raise(e) ==
    [kind |-> "raise", status |-> 0, body |-> "", exc |-> e]

NoOutcome  == [kind |-> "none", status |-> 0, body |-> "", exc |-> "none"]
NoResponse == [status |-> 0, body |-> "", by |-> "none"]

\* django.shortcuts.render(request, template_name, context=None): loads the
\* template by name and wraps the rendered content in an HttpResponse; a
\* missing template raises TemplateDoesNotExist.
render(req, template_name, context) ==
    IF template_name \in DOMAIN templates
    THEN HttpResponse(templates[template_name])
    ELSE Raise("TemplateDoesNotExist")

\* One entry of the call log of the template-rendering collaborator.
RenderCall(req, template_name, context) ==
    [request |-> req, template_name |-> template_name, context |-> context,
     result |-> render(req, template_name, context)]

\* ------------------------------------------------------------------ views

home_fixed_text(req) ==
    [calls |-> <<>>, result |-> HttpResponse(HOME_TEXT)]

home_catches(req) ==
    LET c == RenderCall(req, INDEX_TEMPLATE, "None")
    IN  [calls |-> <<c>>,
         result |-> IF c.result.kind = "raise" THEN HttpResponse(HOME_TEXT)
                    ELSE c.result]

\* views.home: return render(request, 'website/index.html')
home(req) ==
    LET c == RenderCall(req, INDEX_TEMPLATE, "None")
    IN  [calls |-> <<c>>, result |-> c.result]

about_wrong_text(req) ==
    [calls |-> <<>>, result |-> HttpResponse(CONTACT_TEXT)]

about_echoes_method(req) ==
    [calls |-> <<>>,
     result |-> HttpResponse(IF req.method = "GET" THEN ABOUT_TEXT ELSE req.method)]

\* views.about: return HttpResponse("Hello from django views, and about page")
about(req) ==
    [calls |-> <<>>, result |-> HttpResponse(ABOUT_TEXT)]

contact_wrong_text(req) ==
    [calls |-> <<>>, result |-> HttpResponse(ABOUT_TEXT)]

\* views.contact: return HttpResponse("Hello from django views, and contact page")
contact(req) ==
    [calls |-> <<>>, result |-> HttpResponse(CONTACT_TEXT)]

\* What a view whose body is not given may do: answer, redirect or raise.
UnspecifiedOutcomes ==
    { HttpResponse("unspecified"),
      [kind |-> "response", status |-> 302, body |-> "", exc |-> "none"],
      Raise("Exception") }

\* ----------------------------------------------------------- route tables

\* django.urls.path(route, view, name=...): an endpoint pattern.
path(route, view, name) ==
    [route |-> route, view |-> view, name |-> name, endpoint |-> TRUE]

\* django.urls.path(route, include(...)): a prefix pattern.
include(route) ==
    [route |-> route, view |-> "include", name |-> "", endpoint |-> FALSE]

URLPATTERNS_swapped ==
    << path(<<>>, "login", "subapphomepage"),
       path(s_login, "subapp", "login") >>

\* subapp/urls.py: urlpatterns as the module defines it.
URLPATTERNS ==
    << path(<<>>, "subapp", "subapphomepage"),
       path(s_login, "login", "login") >>

\* The project's root table: root, "about" and "contact" to their views, and
\* the subapp table mounted under "subapp/".
ROOT_URLPATTERNS ==
    << path(<<>>, "home", "home"),
       path(s_about, "about", "about"),
       path(s_contact, "contact", "contact"),
       include(s_subapp) >>

Resolver404 == [func |-> "Resolver404", url_name |-> "", index |-> 0]

StartsWith(p, prefix) ==
    /\ Len(prefix) <= Len(p)
    /\ SubSeq(p, 1, Len(prefix)) = prefix

\* RoutePattern.match for a route without converters: an endpoint matches
\* the whole remaining path, a prefix pattern matches its start.
Matches(pattern, p) ==
    IF pattern.endpoint THEN p = pattern.route
    ELSE StartsWith(p, pattern.route)

RECURSIVE resolve_from(_, _, _)
resolve_from(patterns, p, i) ==
    IF i > Len(patterns) THEN Resolver404
    ELSE IF Matches(patterns[i], p)
         THEN [func |-> patterns[i].view, url_name |-> patterns[i].name,
               index |-> i]
         ELSE resolve_from(patterns, p, i + 1)

resolve_catch_all(patterns, p) ==
    LET m == resolve_from(patterns, p, 1)
    IN  IF m = Resolver404 /\ Len(patterns) > 0
        THEN [func |-> patterns[1].view, url_name |-> patterns[1].name,
              index |-> 1]
        ELSE m

\* URLResolver.resolve over a table of endpoints: the patterns are tried in
\* table order and the first match wins; none matching is Resolver404.
resolve(patterns, p) == resolve_from(patterns, p, 1)

RECURSIVE resolve_root_from(_, _)
resolve_root_from(p, i) ==
    IF i > Len(ROOT_URLPATTERNS) THEN Resolver404
    ELSE LET pattern == ROOT_URLPATTERNS[i]
         IN  IF ~Matches(pattern, p) THEN resolve_root_from(p, i + 1)
             ELSE IF pattern.endpoint
                  THEN [func |-> pattern.view, url_name |-> pattern.name,
                        index |-> i]
                  ELSE LET rest == SubSeq(p, Len(pattern.route) + 1, Len(p))
                           sub  == resolve(urlpatterns, rest)
                       IN  IF sub = Resolver404
                           THEN resolve_root_from(p, i + 1)
                           ELSE sub

\* The root resolver: endpoints as above; an include that matches hands the
\* rest of the path to the subapp table and is skipped if that finds nothing.
resolve_root(p) == resolve_root_from(p, 1)

NoLink == [name |-> "none", ok |-> FALSE, url |-> <<>>]

RECURSIVE reverse_from(_, _, _)
reverse_from(patterns, name, i) ==
    IF i = 0 THEN NoLink
    ELSE IF patterns[i].name = name
         THEN [name |-> name, ok |-> TRUE, url |-> patterns[i].route]
         ELSE reverse_from(patterns, name, i - 1)

reverse_first_route(patterns, name) ==
    IF Len(patterns) = 0 THEN NoLink
    ELSE [name |-> name, ok |-> TRUE, url |-> patterns[1].route]

\* Reverse routing by route name over a table: the table is indexed from its
\* last pattern to its first, and the first candidate found is used; no
\* pattern of that name is NoReverseMatch (ok = FALSE).
reverse(patterns, name) == reverse_from(patterns, name, Len(patterns))

\* ---------------------------------------------------------- request cycle

RouteNames == {"subapphomepage", "login", "nosuch"}

Init ==
    /\ urlpatterns = URLPATTERNS
    /\ \E S \in SUBSET TemplateNames : templates \in [S -> TemplateContents]
    /\ pc = "idle"
    /\ request = [method |-> "GET", path |-> <<>>, headers |-> "", via |-> "none"]
    /\ link = NoLink
    /\ match = Resolver404
    /\ invoked = "none"
    /\ calls = <<>>
    /\ outcome = NoOutcome
    /\ response = NoResponse
    /\ seen = [v \in {"home", "about", "contact"} |-> {}]
    /\ served = 0

\* A request starts with nothing resolved, called or answered.
Begin(req) ==
    /\ pc = "idle"
    /\ served < MaxRequests
    /\ request' = req
    /\ match' = Resolver404
    /\ invoked' = "none"
    /\ calls' = <<>>
    /\ outcome' = NoOutcome
    /\ response' = NoResponse
    /\ served' = served + 1
    /\ pc' = "resolve"
    /\ UNCHANGED <<urlpatterns, templates, link, seen>>

\* A client sends a request of its own making.
Receive ==
    \E m \in Methods, p \in Paths, h \in Headers :
        Begin([method |-> m, path |-> p, headers |-> h, via |-> "none"])

\* Reverse routing of a route name of the subapp table.
Reverse ==
    /\ pc = "idle"
    /\ \E n \in RouteNames : link' = reverse(urlpatterns, n)
    /\ UNCHANGED <<urlpatterns, templates, pc, request, match, invoked, calls,
                   outcome, response, seen, served>>

\* A client follows the URL reverse routing produced, under the subapp mount.
FollowLink ==
    /\ link.ok
    /\ \E m \in Methods, h \in Headers :
        Begin([method |-> m, path |-> s_subapp \o link.url, headers |-> h,
               via |-> link.name])

\* The framework resolves the path; no match raises Resolver404, and no view
\* is called.
Resolve ==
    /\ pc = "resolve"
    /\ match' = resolve_root(request.path)
    /\ IF match' = Resolver404
       THEN /\ outcome' = Raise("Resolver404")
            /\ pc' = "respond"
       ELSE /\ outcome' = outcome
            /\ pc' = "view"
    /\ UNCHANGED <<urlpatterns, templates, request, link, invoked, calls,
                   response, seen, served>>

\* The effect of calling view v, which made the render calls cs and returned
\* or raised r: nothing but the bookkeeping of the request changes.
Called(v, cs, r) ==
    /\ invoked' = v
    /\ calls' = cs
    /\ outcome' = r
    /\ seen' = IF v \in DOMAIN seen
               THEN [seen EXCEPT ![v] = @ \cup {[request |-> request, result |-> r]}]
               ELSE seen
    /\ pc' = "respond"
    /\ UNCHANGED <<request, link, match, response, served>>

CallHome_drops_routes ==
    /\ pc = "view"
    /\ match.func = "home"
    /\ Called("home", home(request).calls, home(request).result)
    /\ urlpatterns' = <<>>
    /\ UNCHANGED templates

CallHome ==
    /\ pc = "view"
    /\ match.func = "home"
    /\ Called("home", home(request).calls, home(request).result)
    /\ UNCHANGED <<urlpatterns, templates>>

CallAbout ==
    /\ pc = "view"
    /\ match.func = "about"
    /\ Called("about", about(request).calls, about(request).result)
    /\ UNCHANGED <<urlpatterns, templates>>

CallContact ==
    /\ pc = "view"
    /\ match.func = "contact"
    /\ Called("contact", contact(request).calls, contact(request).result)
    /\ UNCHANGED <<urlpatterns, templates>>

\* subapp.views.subapp: its body is not given.
CallSubapp ==
    /\ pc = "view"
    /\ match.func = "subapp"
    /\ \E r \in UnspecifiedOutcomes : Called("subapp", <<>>, r)
    /\ UNCHANGED <<urlpatterns, templates>>

\* subapp.views.login: its body is not given.
CallLogin ==
    /\ pc = "view"
    /\ match.func = "login"
    /\ \E r \in UnspecifiedOutcomes : Called("login", <<>>, r)
    /\ UNCHANGED <<urlpatterns, templates>>

\* The framework's answer: the view's response as it is, the not-found page
\* for Resolver404, the server-error page for any other exception.
ResponseFor(r) ==
    IF r.kind = "response"
    THEN [status |-> r.status, body |-> r.body, by |-> "view"]
    ELSE IF r.exc = "Resolver404"
         THEN [status |-> 404, body |-> "Not Found", by |-> "framework"]
         ELSE [status |-> 500, body |-> "Server Error (500)", by |-> "framework"]

Respond ==
    /\ pc = "respond"
    /\ response' = ResponseFor(outcome)
    /\ pc' = "idle"
    /\ UNCHANGED <<urlpatterns, templates, request, link, match, invoked,
                   calls, outcome, seen, served>>

Next ==
    \/ Receive
    \/ Reverse
    \/ FollowLink
    \/ Resolve
    \/ CallHome
    \/ CallAbout
    \/ CallContact
    \/ CallSubapp
    \/ CallLogin
    \/ Respond

Spec == Init /\ [][Next]_vars

\* The view has been called for the current request.
Returned == pc \in {"respond", "idle"} /\ invoked # "none"

\* The current request has been answered.
Answered == pc = "idle" /\ served > 0

\* The path of the current request has been resolved.
Resolved == pc \in {"view", "respond", "idle"} /\ served > 0

\* The part of a path the subapp table is given, under its mount.
UnderSubapp(p) == StartsWith(p, s_subapp)
SubappPath(p) == SubSeq(p, Len(s_subapp) + 1, Len(p))

\* ------------------------------------------------------------ properties

\* C1: every request dispatched to about is answered with status 200 and
\* the body "Hello from django views, and about page", exactly.
AboutResponse ==
    /\ (Returned /\ invoked = "about") =>
           /\ outcome.kind = "response"
           /\ outcome.status = 200
           /\ outcome.body = "Hello from django views, and about page"
    /\ (Answered /\ invoked = "about") =>
           /\ response.status = 200
           /\ response.body = "Hello from django views, and about page"
           /\ response.by = "view"

AboutAnswered ==
    /\ Answered
    /\ invoked = "about"
    /\ request.method = "POST"
    /\ response.status = 200

\* C2: every request dispatched to contact is answered with status 200 and
\* the body "Hello from django views, and contact page", exactly.
ContactResponse ==
    /\ (Returned /\ invoked = "contact") =>
           /\ outcome.kind = "response"
           /\ outcome.status = 200
           /\ outcome.body = "Hello from django views, and contact page"
    /\ (Answered /\ invoked = "contact") =>
           /\ response.status = 200
           /\ response.body = "Hello from django views, and contact page"
           /\ response.by = "view"

ContactAnswered ==
    /\ Answered
    /\ invoked = "contact"
    /\ request.headers # ""
    /\ response.status = 200

\* C3: every call of home makes exactly one render call, for the template
\* "website/index.html", with the incoming request and no context, and
\* returns what that call returned or raised; a body it returns is the
\* rendered template, not a text of its own.
HomeRendersOnce ==
    (Returned /\ invoked = "home") =>
        /\ Len(calls) = 1
        /\ calls[1].template_name = "website/index.html"
        /\ calls[1].request = request
        /\ calls[1].context = "None"
        /\ outcome = calls[1].result
        /\ outcome.kind = "response" =>
               /\ "website/index.html" \in DOMAIN templates
               /\ outcome.body = templates["website/index.html"]

HomeRendered ==
    /\ Returned
    /\ invoked = "home"
    /\ Len(calls) = 1
    /\ outcome.kind = "response"
    /\ outcome.body = "<h1>Home</h1>"

\* C4: with the template "website/index.html" absent, a request routed to
\* home leaves home as the template-resolution failure itself, the cycle
\* can still answer it, and the answer is the framework's error response.
HomeMissingTemplate ==
    (invoked = "home" /\ "website/index.html" \notin DOMAIN templates) =>
        /\ Returned => outcome = Raise("TemplateDoesNotExist")
        /\ pc = "respond" => ENABLED Respond
        /\ Answered => /\ response.by = "framework"
                       /\ response.status = 500

HomeFailed ==
    /\ Answered
    /\ request.path = <<>>
    /\ invoked = "home"
    /\ "website/index.html" \notin DOMAIN templates
    /\ response.status = 500

\* Index of the first route of the subapp table whose pattern is the path,
\* 0 if there is none.
FirstMatch(p) ==
    LET M == {i \in 1..Len(urlpatterns) : urlpatterns[i].route = p}
    IN  IF M = {} THEN 0 ELSE CHOOSE i \in M : \A j \in M : i <= j

\* C5: for a path handed to the subapp table, the view called is that of
\* the first route in table order whose pattern matches; when no route
\* matches, no view is called and the answer is the framework's not-found.
FirstMatchDispatch ==
    (Resolved /\ UnderSubapp(request.path)) =>
        LET k == FirstMatch(SubappPath(request.path))
        IN  IF k = 0
            THEN /\ match = Resolver404
                 /\ invoked = "none"
                 /\ calls = <<>>
                 /\ Answered => /\ response.status = 404
                                /\ response.by = "framework"
            ELSE /\ match.func = urlpatterns[k].view
                 /\ Returned => invoked = urlpatterns[k].view

SubappNotFound ==
    /\ Answered
    /\ request.path = s_subapp \o <<"l", "o", "g">>
    /\ invoked = "none"
    /\ response.status = 404

\* C6: the subapp table is, in order, the empty path to the subapp home
\* view under the name "subapphomepage" and "login" to the login view under
\* the name "login"; the empty subapp path is dispatched to the former and
\* "login" to the latter.
SubappRouteTable ==
    /\ Len(urlpatterns) = 2
    /\ urlpatterns[1].route = <<>>
    /\ urlpatterns[1].view = "subapp"
    /\ urlpatterns[1].name = "subapphomepage"
    /\ urlpatterns[2].route = <<"l", "o", "g", "i", "n">>
    /\ urlpatterns[2].view = "login"
    /\ urlpatterns[2].name = "login"
    /\ (Resolved /\ request.path = s_subapp) =>
           /\ match.func = "subapp"
           /\ Returned => invoked = "subapp"
    /\ (Resolved /\ request.path = s_subapp \o <<"l", "o", "g", "i", "n">>) =>
           /\ match.func = "login"
           /\ Returned => invoked = "login"

LoginDispatched ==
    /\ Answered
    /\ request.via = "none"
    /\ request.path = s_subapp \o s_login
    /\ invoked = "login"

\* C7: "subapphomepage" reverses to the empty path and "login" to "login";
\* a request for the path reversed from a name reaches the view registered
\* under that name; no two routes share a name or a pattern.
ReverseRoundTrip ==
    /\ link.name = "subapphomepage" => (link.ok /\ link.url = <<>>)
    /\ link.name = "login" => (link.ok /\ link.url = <<"l", "o", "g", "i", "n">>)
    /\ \A i, j \in 1..Len(urlpatterns) :
           i # j => /\ urlpatterns[i].name # urlpatterns[j].name
                    /\ urlpatterns[i].route # urlpatterns[j].route
    /\ (Resolved /\ request.via # "none") =>
           /\ match.url_name = request.via
           /\ \A i \in 1..Len(urlpatterns) :
                  urlpatterns[i].name = request.via =>
                      /\ match.func = urlpatterns[i].view
                      /\ Returned => invoked = urlpatterns[i].view

LoginLinkFollowed ==
    /\ Answered
    /\ request.via = "login"
    /\ request.path = s_subapp \o s_login
    /\ invoked = "login"

\* C8: a call of home, about or contact, whether it returns or raises,
\* leaves the route table and the template store as they were.
HandlersChangeNoState ==
    [][(pc = "view" /\ match.func \in {"home", "about", "contact"}) =>
           /\ urlpatterns' = urlpatterns
           /\ templates' = templates]_vars

SeveralHandled ==
    /\ Answered
    /\ served >= 2
    /\ invoked = "home"
    /\ outcome.kind = "raise"
    /\ seen["about"] # {}
    /\ urlpatterns = URLPATTERNS

\* C10: whatever the method and headers of the requests about and contact
\* served so far, and whatever was served in between, each of the two
\* returned one and the same status and body every time.
AboutContactIndependent ==
    \A v \in {"about", "contact"} :
        \A a, b \in seen[v] :
            /\ a.result.status = b.result.status
            /\ a.result.body = b.result.body
            /\ a.result.kind = b.result.kind

DifferentRequestsServed ==
    /\ Answered
    /\ \E a, b \in seen["about"] :
           /\ a.request.method # b.request.method
           /\ a.request.headers # b.request.headers
    /\ seen["home"] # {}

====
